---------------------------- MODULE Spec2Model ----------------------------
(***************************************************************************)
(* DatabaseManager (test-codebase/database.py): a lazily connected wrapper *)
(* around one sqlite3 connection.  The manager's calls connect(),          *)
(* execute_query() and close() are the actions; the sqlite3 driver is      *)
(* modelled by what its calls do at the places the manager makes them.     *)
(***************************************************************************)
EXTENDS Integers, Sequences, FiniteSets, TLC

\* ------------------------------------------------------------- bounds
MaxHandles == 3      \* connection objects the driver can hand out in a run
MaxLen     == 2      \* rows in table t
MaxId      == 2      \* ids stored in t and bound to :id

\* ------------------------------------------------------------- values
None == 0            \* self.connection = None (handles are 1..MaxHandles)

Handles == 1..MaxHandles
Ids     == 1..MaxId
Names   == {"a", "b"}
Rows    == [id : Ids, name : Names]
Tables  == UNION {[1..n -> Rows] : n \in 0..MaxLen}
\* The table of the documented example: rows {id:1,name:"a"}, {id:2,name:"b"}.
ExampleTable == <<[id |-> 1, name |-> "a"], [id |-> 2, name |-> "b"]>>

\* The query texts the callers pass.
Select1    == "SELECT 1"
SelectById == "SELECT * FROM t WHERE id = :id"
Malformed  == "SELEKT * FROM t"
Queries    == {Select1, SelectById, Malformed}

\* The params argument: absent (the default None), or a mapping of names to
\* values, possibly empty.
EmptyMap  == [k \in {} |-> 0]
NoParams  == [present |-> FALSE, binds |-> EmptyMap]
Mappings  == {EmptyMap} \cup {[k \in {"id"} |-> v] : v \in Ids}
ParamArgs == {NoParams} \cup {[present |-> TRUE, binds |-> m] : m \in Mappings}

VARIABLES
    connection,    \* self.connection: None or the handle held
    handleState,   \* every handle: "unborn", "open" or "closed"
    openable,      \* can sqlite3.connect(self.db_path) open the data source now
    table,         \* the contents of table t in the data source
    returned,      \* the handles connect() has returned since the last close()
    last           \* the call that ended last: arguments, state before, outcome

vars == <<connection, handleState, openable, table, returned, last>>

\* The state of a manager and of the connection objects it opened.
TypeOK ==
    /\ connection \in {None} \cup Handles
    /\ handleState \in [Handles -> {"unborn", "open", "closed"}]
    /\ openable \in BOOLEAN
    /\ table \in Tables
    /\ returned \subseteq Handles
    /\ last.op \in {"init", "connect", "execute_query", "close"}
    /\ last.outcome \in {"ok", "ConnectionError", "QueryError"}

\* ------------------------------------------------------------- the driver
\* sqlite3.connect returns a connection object distinct from every earlier one.
HasFresh(hs) == \E h \in Handles : hs[h] = "unborn"
Fresh(hs)    == CHOOSE h \in Handles : hs[h] = "unborn" /\ \A g \in Handles : hs[g] = "unborn" => h <= g

\* `if params:` - None and the empty mapping are both falsy.
\* (ParamsNeverPassed, ParamsIsNotNone: faulty variants the properties must reject.)
ParamsNeverPassed(p) == FALSE
ParamsIsNotNone(p) == p.present
ParamsTruthy(p) == p.present /\ DOMAIN p.binds # {}

\* cursor.execute(query) / cursor.execute(query, params) followed by
\* cursor.fetchall(): the outcome and the rows.  `passed` tells which of the
\* two calls was made.
CursorExecute(tbl, query, passed, binds) ==
    IF query = Malformed
    THEN [outcome |-> "QueryError", rows |-> <<>>]
    ELSE IF query = Select1
    THEN [outcome |-> "ok", rows |-> <<[c1 |-> 1]>>]
    ELSE IF passed /\ "id" \in DOMAIN binds
    THEN [outcome |-> "ok",
          rows |-> SelectSeq(tbl, LAMBDA r : r.id = binds["id"])]
    ELSE [outcome |-> "QueryError", rows |-> <<>>]

\* ------------------------------------------------------------- the manager
\* connect(): the state after the call, what it returned or raised, and the
\* number of sqlite3.connect attempts it made.
\* (ConnectUnguarded, ConnectRetry, ConnectKeepsFailed: faulty variants the
\* properties must reject - no `if not self.connection` guard, a second
\* attempt after a failure, a handle kept after a failure.)
ConnectUnguarded(conn, hs, ok) ==
    IF ok /\ HasFresh(hs)
    THEN [connection |-> Fresh(hs), handleState |-> [hs EXCEPT ![Fresh(hs)] = "open"],
          outcome |-> "ok", ret |-> Fresh(hs), opens |-> 1]
    ELSE [connection |-> conn, handleState |-> hs,
          outcome |-> "ConnectionError", ret |-> None, opens |-> 1]
ConnectRetry(conn, hs, ok) ==
    IF conn = None
    THEN IF ok
         THEN [connection |-> Fresh(hs), handleState |-> [hs EXCEPT ![Fresh(hs)] = "open"],
               outcome |-> "ok", ret |-> Fresh(hs), opens |-> 1]
         ELSE [connection |-> None, handleState |-> hs,
               outcome |-> "ConnectionError", ret |-> None, opens |-> 2]
    ELSE [connection |-> conn, handleState |-> hs,
          outcome |-> "ok", ret |-> conn, opens |-> 0]
ConnectKeepsFailed(conn, hs, ok) ==
    IF conn = None
    THEN IF ok
         THEN [connection |-> Fresh(hs), handleState |-> [hs EXCEPT ![Fresh(hs)] = "open"],
               outcome |-> "ok", ret |-> Fresh(hs), opens |-> 1]
         ELSE IF HasFresh(hs)
         THEN [connection |-> Fresh(hs), handleState |-> [hs EXCEPT ![Fresh(hs)] = "closed"],
               outcome |-> "ConnectionError", ret |-> None, opens |-> 1]
         ELSE [connection |-> None, handleState |-> hs,
               outcome |-> "ConnectionError", ret |-> None, opens |-> 1]
    ELSE [connection |-> conn, handleState |-> hs,
          outcome |-> "ok", ret |-> conn, opens |-> 0]
Connect(conn, hs, ok) ==
    IF conn = None
    THEN IF ok
         THEN [connection |-> Fresh(hs), handleState |-> [hs EXCEPT ![Fresh(hs)] = "open"],
               outcome |-> "ok", ret |-> Fresh(hs), opens |-> 1]
         ELSE [connection |-> None, handleState |-> hs,
               outcome |-> "ConnectionError", ret |-> None, opens |-> 1]
    ELSE [connection |-> conn, handleState |-> hs,
          outcome |-> "ok", ret |-> conn, opens |-> 0]

\* The part of execute_query() after `conn = self.connect()` returned handle h:
\* conn.cursor(), the execute call chosen by `if params:`, fetchall().
RunOn(h, hs, tbl, query, p) ==
    IF h = None
    THEN [outcome |-> "AttributeError", rows |-> <<>>, passed |-> FALSE, binds |-> EmptyMap]
    ELSE IF hs[h] # "open"
    THEN [outcome |-> "ProgrammingError", rows |-> <<>>, passed |-> FALSE, binds |-> EmptyMap]
    ELSE IF ParamsTruthy(p)
    THEN [outcome |-> CursorExecute(tbl, query, TRUE, p.binds).outcome,
          rows |-> CursorExecute(tbl, query, TRUE, p.binds).rows,
          passed |-> TRUE, binds |-> p.binds]
    ELSE [outcome |-> CursorExecute(tbl, query, FALSE, EmptyMap).outcome,
          rows |-> CursorExecute(tbl, query, FALSE, EmptyMap).rows,
          passed |-> FALSE, binds |-> EmptyMap]

\* execute_query(query, params).  runs counts the attempts to run the query,
\* ranOn / ranOnState the handle it was run on and that handle's state then.
\* (ExecuteQueryNoConnect, ExecuteQueryClosesOnError: faulty variants - the
\* query run on self.connection without connect(), the connection closed when
\* the query fails.)
ExecuteQueryNoConnect(conn, hs, ok, tbl, query, p) ==
    LET r == RunOn(conn, hs, tbl, query, p)
    IN  [connection |-> conn, handleState |-> hs,
         outcome |-> r.outcome, rows |-> r.rows, opens |-> 0, runs |-> 1,
         ranOn |-> conn, ranOnState |-> IF conn = None THEN "none" ELSE hs[conn],
         passed |-> r.passed, binds |-> r.binds]
ExecuteQueryClosesOnError(conn, hs, ok, tbl, query, p) ==
    LET c == Connect(conn, hs, ok)
        r == RunOn(c.ret, c.handleState, tbl, query, p)
    IN  IF c.outcome # "ok"
        THEN [connection |-> c.connection, handleState |-> c.handleState,
              outcome |-> c.outcome, rows |-> <<>>, opens |-> c.opens, runs |-> 0,
              ranOn |-> None, ranOnState |-> "none",
              passed |-> FALSE, binds |-> EmptyMap]
        ELSE [connection |-> IF r.outcome = "ok" THEN c.connection ELSE None,
              handleState |-> IF r.outcome = "ok" THEN c.handleState
                              ELSE [c.handleState EXCEPT ![c.ret] = "closed"],
              outcome |-> r.outcome, rows |-> r.rows, opens |-> c.opens, runs |-> 1,
              ranOn |-> c.ret, ranOnState |-> c.handleState[c.ret],
              passed |-> r.passed, binds |-> r.binds]
ExecuteQuery(conn, hs, ok, tbl, query, p) ==
    LET c == Connect(conn, hs, ok)
        r == RunOn(c.ret, c.handleState, tbl, query, p)
    IN  IF c.outcome # "ok"
        THEN [connection |-> c.connection, handleState |-> c.handleState,
              outcome |-> c.outcome, rows |-> <<>>, opens |-> c.opens, runs |-> 0,
              ranOn |-> None, ranOnState |-> "none",
              passed |-> FALSE, binds |-> EmptyMap]
        ELSE [connection |-> c.connection, handleState |-> c.handleState,
              outcome |-> r.outcome, rows |-> r.rows, opens |-> c.opens, runs |-> 1,
              ranOn |-> c.ret,
              ranOnState |-> IF c.ret = None THEN "none" ELSE c.handleState[c.ret],
              passed |-> r.passed, binds |-> r.binds]

\* close().  (CloseKeepsReference, CloseDropsOnly, CloseRaisesWhenNone: faulty
\* variants - line 33 missing, line 32 missing, the guard of line 31 missing.)
CloseKeepsReference(conn, hs) ==
    IF conn # None
    THEN [connection |-> conn, handleState |-> [hs EXCEPT ![conn] = "closed"],
          outcome |-> "ok"]
    ELSE [connection |-> conn, handleState |-> hs, outcome |-> "ok"]
CloseDropsOnly(conn, hs) ==
    [connection |-> None, handleState |-> hs, outcome |-> "ok"]
CloseRaisesWhenNone(conn, hs) ==
    IF conn # None
    THEN [connection |-> None, handleState |-> [hs EXCEPT ![conn] = "closed"],
          outcome |-> "ok"]
    ELSE [connection |-> conn, handleState |-> hs, outcome |-> "AttributeError"]
Close(conn, hs) ==
    IF conn # None
    THEN [connection |-> None, handleState |-> [hs EXCEPT ![conn] = "closed"],
          outcome |-> "ok"]
    ELSE [connection |-> conn, handleState |-> hs, outcome |-> "ok"]

\* ------------------------------------------------------------- the calls
\* The record of a call: its arguments, the state it started in, how it ended.
CallRecord(op, query, p, outcome, ret, rows, opens, runs, ranOn, ranOnState, passed, binds) ==
    [op |-> op, query |-> query, params |-> p,
     preConnection |-> connection, preHandleState |-> handleState,
     preOpenable |-> openable, preReturned |-> returned,
     outcome |-> outcome, ret |-> ret, rows |-> rows,
     opens |-> opens, runs |-> runs, ranOn |-> ranOn, ranOnState |-> ranOnState,
     passed |-> passed, binds |-> binds]

\* __init__: no connection; the data source is whatever db_path names.
Init ==
    /\ connection = None
    /\ handleState = [h \in Handles |-> "unborn"]
    /\ openable \in BOOLEAN
    /\ table = ExampleTable
    /\ returned = {}
    /\ last = [op |-> "init", query |-> "", params |-> NoParams,
               preConnection |-> None,
               preHandleState |-> [h \in Handles |-> "unborn"],
               preOpenable |-> openable, preReturned |-> {},
               outcome |-> "ok", ret |-> None, rows |-> <<>>,
               opens |-> 0, runs |-> 0, ranOn |-> None, ranOnState |-> "none",
               passed |-> FALSE, binds |-> EmptyMap]

ConnectCall ==
    /\ (connection = None /\ openable) => HasFresh(handleState)
    /\ LET c == Connect(connection, handleState, openable)
       IN  /\ connection' = c.connection
           /\ handleState' = c.handleState
           /\ last' = CallRecord("connect", "", NoParams, c.outcome, c.ret, <<>>,
                                 c.opens, 0, None, "none", FALSE, EmptyMap)
           /\ returned' = IF c.outcome = "ok" THEN returned \cup {c.ret} ELSE returned
    /\ UNCHANGED <<openable, table>>

ExecuteQueryCall ==
    /\ (connection = None /\ openable) => HasFresh(handleState)
    /\ \E query \in Queries, p \in ParamArgs :
         LET e == ExecuteQuery(connection, handleState, openable, table, query, p)
         IN  /\ connection' = e.connection
             /\ handleState' = e.handleState
             /\ last' = CallRecord("execute_query", query, p, e.outcome, None, e.rows,
                                   e.opens, e.runs, e.ranOn, e.ranOnState,
                                   e.passed, e.binds)
    /\ UNCHANGED <<openable, table, returned>>

CloseCall ==
    /\ LET c == Close(connection, handleState)
       IN  /\ connection' = c.connection
           /\ handleState' = c.handleState
           /\ last' = CallRecord("close", "", NoParams, c.outcome, None, <<>>,
                                 0, 0, None, "none", FALSE, EmptyMap)
    /\ returned' = {}
    /\ UNCHANGED <<openable, table>>

\* The file behind db_path becomes unopenable (removed, permissions) or
\* openable again between two calls.
DataSourceChange ==
    /\ openable' = ~openable
    /\ UNCHANGED <<connection, handleState, table, returned, last>>

Next == ConnectCall \/ ExecuteQueryCall \/ CloseCall \/ DataSourceChange

Spec == Init /\ [][Next]_vars

\* Queries against every bounded contents of table t: a manager created on an
\* openable data source, used through execute_query() and close().
InitRows ==
    /\ connection = None
    /\ handleState = [h \in Handles |-> "unborn"]
    /\ openable = TRUE
    /\ table \in Tables
    /\ returned = {}
    /\ last = [op |-> "init", query |-> "", params |-> NoParams,
               preConnection |-> None,
               preHandleState |-> [h \in Handles |-> "unborn"],
               preOpenable |-> TRUE, preReturned |-> {},
               outcome |-> "ok", ret |-> None, rows |-> <<>>,
               opens |-> 0, runs |-> 0, ranOn |-> None, ranOnState |-> "none",
               passed |-> FALSE, binds |-> EmptyMap]

NextRows == ExecuteQueryCall \/ CloseCall

SpecRows == InitRows /\ [][NextRows]_vars

\* ------------------------------------------------------------- properties
Live == {h \in Handles : handleState[h] = "open"}
IsCall(op) == last.op = op
ManagerCall == last.op \in {"connect", "execute_query"}

\* The calls the driver accepts: the query parses and every placeholder of it
\* is bound.
Accepted(query, p) ==
    \/ query = Select1
    \/ query = SelectById /\ p.present /\ "id" \in DOMAIN p.binds

\* C1: at most one handle opened by the manager is live, and it is the one the
\* manager holds; a handle is opened only by a call that started with no
\* connection held, and a reference the manager no longer holds is to a
\* closed handle.
C1_AtMostOneLive ==
    /\ Cardinality(Live) <= 1
    /\ Live = (IF connection = None THEN {} ELSE {connection})
    /\ (ManagerCall /\ handleState # last.preHandleState) => last.preConnection = None
    /\ (last.preConnection # None /\ connection # last.preConnection)
          => handleState[last.preConnection] = "closed"
C1_Witness ==
    /\ connection = 2
    /\ handleState[1] = "closed"
    /\ handleState[2] = "open"

\* C2: a connect() call made after an earlier connect() with no close() in
\* between returns the handle the earlier call returned and opens nothing.
C2_ConnectIdempotent ==
    /\ Cardinality(returned) <= 1
    /\ (IsCall("connect") /\ last.preReturned # {})
          => /\ last.outcome = "ok"
             /\ last.ret \in last.preReturned
             /\ last.opens = 0
             /\ handleState = last.preHandleState
C2_Witness ==
    /\ IsCall("connect")
    /\ last.preReturned = {1}
    /\ last.ret = 1
    /\ returned = {1}

\* C3: after close() the reference is absent; execute_query() on a manager
\* that holds no connection opens a fresh one and succeeds when the data
\* source can be opened and the driver accepts the query.
C3_ReusableAfterClose ==
    /\ IsCall("close") => connection = None
    /\ (IsCall("execute_query") /\ last.preConnection = None /\ last.preOpenable
           /\ Accepted(last.query, last.params))
          => /\ last.outcome = "ok"
             /\ last.opens = 1
             /\ connection # None
             /\ handleState[connection] = "open"
             /\ last.preHandleState[connection] = "unborn"
C3_Witness ==
    /\ IsCall("execute_query")
    /\ last.preConnection = None
    /\ last.preHandleState[1] = "closed"
    /\ last.outcome = "ok"
    /\ connection = 2

\* C4: close() ends without an error in every state, leaves no connection
\* held, changes nothing when none was held, and a second close() changes
\* nothing more.
C4_CloseNeverFails ==
    /\ LET once  == Close(connection, handleState)
           twice == Close(once.connection, once.handleState)
       IN  /\ once.outcome = "ok"
           /\ once.connection = None
           /\ twice = once
           /\ connection = None => once.handleState = handleState
    /\ IsCall("close")
          => /\ last.outcome = "ok"
             /\ connection = None
             /\ last.preConnection = None => handleState = last.preHandleState
C4_Witness ==
    /\ IsCall("close")
    /\ last.preConnection = None
    /\ last.preHandleState[1] = "closed"

\* C5 as stated: malformed SQL ends execute_query() with a QueryError and
\* the connection is open after the call exactly if it was open before it.
Status(conn, hs) == IF conn # None /\ hs[conn] = "open" THEN "open" ELSE "closed"
C5_Original ==
    (IsCall("execute_query") /\ last.query = Malformed)
       => /\ last.outcome = "QueryError"
          /\ Status(connection, handleState)
                = Status(last.preConnection, last.preHandleState)
\* C5 amended: malformed SQL on a manager that holds a connection ends with a
\* QueryError and the same handle is still held and open; on a manager that
\* holds none the call connects first: QueryError with the new connection
\* left open when the data source opens, ConnectionError with none held when
\* it does not.
C5_Amended ==
    (IsCall("execute_query") /\ last.query = Malformed)
       => /\ last.preConnection # None
             => /\ last.outcome = "QueryError"
                /\ connection = last.preConnection
                /\ handleState = last.preHandleState
                /\ handleState[connection] = "open"
          /\ (last.preConnection = None /\ last.preOpenable)
             => /\ last.outcome = "QueryError"
                /\ connection # None
                /\ handleState[connection] = "open"
                /\ last.preHandleState[connection] = "unborn"
          /\ (last.preConnection = None /\ ~last.preOpenable)
             => /\ last.outcome = "ConnectionError"
                /\ connection = None
                /\ handleState = last.preHandleState
C5_Witness ==
    /\ IsCall("execute_query")
    /\ last.query = Malformed
    /\ last.preConnection = 1
    /\ last.outcome = "QueryError"
    /\ connection = 1

\* C6: a call makes at most one attempt to open the data source and at most
\* one to run the query; a failed attempt ends the call with its error and
\* without a result.
C6_NoRetryNoSwallow ==
    /\ last.opens <= 1
    /\ last.runs <= 1
    /\ (ManagerCall /\ last.opens >= 1 /\ ~last.preOpenable)
          => /\ last.outcome = "ConnectionError"
             /\ last.ret = None
             /\ last.rows = <<>>
             /\ last.runs = 0
    /\ (IsCall("execute_query") /\ last.runs >= 1
           /\ ~Accepted(last.query, last.params))
          => /\ last.outcome = "QueryError"
             /\ last.rows = <<>>
C6_Witness ==
    /\ IsCall("execute_query")
    /\ last.outcome = "QueryError"
    /\ last.runs = 1
    /\ last.opens = 1

\* C7: the query is run only on the handle the manager holds, open at that
\* moment, and an execute_query() that returned rows leaves an open
\* connection held.
C7_RunsOnOpenConnection ==
    /\ (IsCall("execute_query") /\ last.runs >= 1)
          => /\ last.ranOn # None
             /\ last.ranOn = connection
             /\ last.ranOnState = "open"
    /\ (IsCall("execute_query") /\ last.outcome = "ok")
          => /\ last.runs = 1
             /\ connection # None
             /\ handleState[connection] = "open"
C7_Witness ==
    /\ IsCall("execute_query")
    /\ last.preConnection = None
    /\ last.outcome = "ok"
    /\ last.ranOn = connection
    /\ last.ranOnState = "open"

\* C8: SELECT * FROM t WHERE id = :id with {id: v} returns the rows of t
\* whose id is v, each once, in the order of t, and no other row.
IsFilterOf(rows, tbl, v) ==
    \E pick \in [1..Len(rows) -> 1..Len(tbl)] :
        /\ \A i \in 1..Len(rows) : rows[i] = tbl[pick[i]] /\ tbl[pick[i]].id = v
        /\ \A i, j \in 1..Len(rows) : i < j => pick[i] < pick[j]
        /\ \A k \in 1..Len(tbl) : tbl[k].id = v => \E i \in 1..Len(rows) : pick[i] = k
C8_RowsMatchFilter ==
    (IsCall("execute_query") /\ last.query = SelectById
        /\ last.params.present /\ "id" \in DOMAIN last.params.binds
        /\ last.runs >= 1)
       => /\ last.outcome = "ok"
          /\ IsFilterOf(last.rows, table, last.params.binds["id"])
C8_Witness ==
    /\ IsCall("execute_query")
    /\ last.query = SelectById
    /\ table = ExampleTable
    /\ last.params = [present |-> TRUE, binds |-> [k \in {"id"} |-> 2]]
    /\ last.rows = <<[id |-> 2, name |-> "b"]>>

\* C9: with an empty mapping execute_query() does what it does with no
\* params, in every state and for every query, and the driver is given a
\* mapping only when the mapping is non-empty.
EmptyArg == [present |-> TRUE, binds |-> EmptyMap]
C9_EmptyLikeAbsent ==
    /\ ((connection = None /\ openable) => HasFresh(handleState))
          => \A query \in Queries :
                ExecuteQuery(connection, handleState, openable, table, query, EmptyArg)
                   = ExecuteQuery(connection, handleState, openable, table, query, NoParams)
    /\ (IsCall("execute_query") /\ last.passed)
          => /\ last.params.present
             /\ DOMAIN last.params.binds # {}
             /\ last.binds = last.params.binds
    /\ (IsCall("execute_query") /\ last.params = EmptyArg) => ~last.passed
C9_Witness ==
    /\ IsCall("execute_query")
    /\ last.params = EmptyArg
    /\ last.runs = 1
    /\ ~last.passed

\* C10: a connect() or execute_query() whose open attempt failed leaves no
\* connection held and no handle changed, and a call that starts with no
\* connection held makes an open attempt of its own, holding a handle that
\* did not exist before when the attempt succeeds.
C10_FailedConnectLeavesNothing ==
    /\ (ManagerCall /\ last.outcome = "ConnectionError")
          => /\ connection = None
             /\ handleState = last.preHandleState
             /\ Live = {}
    /\ (ManagerCall /\ last.preConnection = None)
          => /\ last.opens = 1
             /\ last.preOpenable
                   => /\ connection # None
                      /\ last.preHandleState[connection] = "unborn"
                      /\ handleState[connection] = "open"
C10_Witness ==
    /\ IsCall("connect")
    /\ last.outcome = "ConnectionError"
    /\ last.preConnection = None
    /\ connection = None
    /\ last.opens = 1

=============================================================================
